---- MODULE Spec2Model ----
(***************************************************************************)
(* HeadlessQA (backend/llm/qa_headless.py): buffered answer generation     *)
(* (generate_answer) and token streaming (generate_stream) over a chat     *)
(* history store, a completion provider and a per-call callback sink.      *)
(*                                                                         *)
(* One call is one slot of Calls.  generate_answer has no suspension point *)
(* and is one action.  generate_stream is an async generator: its steps    *)
(* are the code between two suspension points (the awaits inside           *)
(* callback.aiter(), the yield, await run), interleaved with the steps of  *)
(* the background task made by asyncio.create_task.                        *)
(***************************************************************************)
EXTENDS Naturals, Sequences, FiniteSets

\* ------------------------------------------------------------------ bounds
\* Calls made in one run.
MaxCalls == 2
\* Tokens the provider pushes plus exceptions raised in one run, over all
\* calls and tasks.
MaxEvents == 2

Calls == 1..MaxCalls

\* ------------------------------------------------------------------ inputs
\* (chat_id, question.question) of a call.
Requests == {<<"c1", "q1">>, <<"c2", "q2">>}
\* Chat ids and question texts are opaque.  Calls are made by two clients in
\* turn (see CanStart): the first client's request is fixed, the second
\* client repeats it or differs from it in both.
RequestsFor(c) == IF c % 2 = 1 THEN {<<"c1", "q1">>} ELSE Requests
\* Tokens the provider pushes into the sink (the sink holds non-empty
\* strings).  The code never inspects a token, so the k-th token pushed in a
\* run is given a text of its own: tokens of different calls, and of
\* different positions in a call, can be told apart.
Tokens == <<"a", "b", "c", "d">>
\* Completed messages of the buffered provider call.
Answers == {"ab"}
\* What the awaited provider call of a stream raises: an Exception, or a
\* BaseException that is not one (asyncio.CancelledError, KeyboardInterrupt).
Raised == {"Exception", "BaseException"}
\* The call that raises after the provider was called or launched, if any:
\* self.prompt_to_use_id (lines 156, 224, an argument of the record, so
\* evaluated before the creation), update_chat_history (lines 149, 217),
\* self.prompt_to_use of the payload (lines 167, 236).
Late == {"prompt_to_use_id", "update_chat_history", "prompt_to_use"}
\* What the store's update_message_by_id (line 252) does when called: it
\* updates the record, or raises.
UpdateOutcomes == {"updated", "raises"}

\* ------------------------------------------ inputs of the pure functions
\* Texts are sequences of characters, so that they can be cut at an index.
\* Python's None, for a key that was not given.
None == "None"
\* The chat_id field of an object built without one (`chat_id: str = None`).
DefaultChat == None
\* API keys given at construction ("" is a key that is given and empty).
Keys == {None, "", "sk-a", "sk-b"}
\* brain.name of the persona.
Names == {<<>>, <<"A", "d", "a">>, <<"{", "0", "}">>}
\* self.prompt_to_use: no prompt (the empty sequence stands for None) or
\* one Prompt, whose content may be empty.
Prompts ==
    {<<>>,
     <<[title |-> "brief", content |-> <<"B", "e", " ", "b", "r", "i", "e", "f", ".">>]>>,
     <<[title |-> "blank", content |-> <<>>]>>}
\* question.question of the calls whose messages are assembled.
QuestionText == <<"h", "i", "?">>

VARIABLES
    store,            \* history store: record i is the record of message id i
    mode,             \* per call: "none", "generate", "stream"
    chat,             \* per call: chat_id argument
    question,         \* per call: question.question
    pc,               \* per call: position of the caller-visible coroutine
    queue,            \* per call: callback.queue (tokens pushed, not yet read)
    taken,            \* per call: the token queue.get() has taken for the
                      \* waiting aiter(), not yet handed to the loop body
    done,             \* per call: callback.done event
    task,             \* per call: state of the background task `run`:
                      \* "none", "running", "closing" (the sink's done event
                      \* is set, the awaited call has still to return or
                      \* raise), "finished", "crashed" (ended by an
                      \* exception of the awaited call), "cancelled" (ended
                      \* by the cancellation of the generator awaiting it)
    failed,           \* per call: wrap_done logged an exception
    produced,         \* per call: tokens the provider pushed, in order
    response_tokens,  \* per call: the accumulator response_tokens
    frames,           \* per call: payloads yielded so far
    msg,              \* per call: message_id of the call's payload (the
                      \* response, or streamed_chat_history); 0: none built
    creates,          \* per call: records update_chat_history created
    updates,          \* per call: records update_message_by_id updated
    provCalls,        \* per call: number of provider invocations
    abandoned,        \* per call: the caller stopped iterating (it left
                      \* the generator at a yield, or was cancelled)
    cause,            \* per call: what raised out of the call: "none",
                      \* "lookup" (history, persona or prompt, before the
                      \* provider), a member of Late, "provider",
                      \* "update_message_by_id", or where CancelledError
                      \* was raised: "callback.aiter", "await run"
    history,          \* per call of generate_answer: the chat whose history
                      \* it loaded, the formatted turns it got and the
                      \* callbacks it passed to _create_llm
    config,           \* a HeadlessQA object: the data given to __init__ and
                      \* the fields __init__ has set (none before it ran)
    prompt            \* one prompt resolution: the prompt override and
                      \* persona name found, and the messages assembled

vars == <<store, mode, chat, question, pc, queue, done, task, failed, produced,
          response_tokens, frames, msg, creates, updates, provCalls, abandoned,
          history, config, prompt, taken, cause>>

callVars == <<store, mode, chat, question, pc, queue, done, task, failed,
              produced, response_tokens, frames, msg, creates, updates,
              provCalls, abandoned, history, taken, cause>>
pureVars == <<config, prompt>>

\* ----------------------------------------------------------- pure helpers
\* "".join(response_tokens)
RECURSIVE Concat(_)
Concat(s) == IF s = <<>> THEN "" ELSE Head(s) \o Concat(Tail(s))

RECURSIVE SumLen(_, _)
SumLen(f, n) == IF n = 0 THEN 0 ELSE Len(f[n]) + SumLen(f, n - 1)
\* Number of tokens pushed so far, over all calls.
Total(f) == SumLen(f, MaxCalls)

IsPrefix(s, t) == Len(s) <= Len(t) /\ SubSeq(t, 1, Len(s)) = s

\* The assistant fields of a sequence of frames, in yield order.
Assistants(fs) == [i \in 1..Len(fs) |-> fs[i].assistant]

\* --------------------------------------------------- construction, prompt
SYSTEM_MESSAGE ==
    <<"Y", "o", "u", "r", " ", "n", "a", "m", "e", " ",
      "i", "s", " ", "a", " ", "D", "i", "g", "i", "t",
      "a", "l", " ", "T", "w", "i", "n", " ", "-", " ",
      ".", " ", "Y", "o", "u", "'", "r", "e", " ", "a",
      " ", "h", "e", "l", "p", "f", "u", "l", " ", "a",
      "s", "s", "i", "s", "t", "a", "n", "t", ".", " ",
      "I", "f", " ", "y", "o", "u", " ", "d", "o", "n",
      "'", "t", " ", "k", "n", "o", "w", " ", "t", "h",
      "e", " ", "a", "n", "s", "w", "e", "r", ",", " ",
      "j", "u", "s", "t", " ", "s", "a", "y", " ", "t",
      "h", "a", "t", " ", "y", "o", "u", " ", "d", "o",
      "n", "'", "t", " ", "k", "n", "o", "w", ",", " ",
      "d", "o", "n", "'", "t", " ", "t", "r", "y", " ",
      "t", "o", " ", "m", "a", "k", "e", " ", "u", "p",
      " ", "a", "n", " ", "a", "n", "s", "w", "e", "r",
      ".">>

\* s[:index] and s[index:] of Python, for index >= 0: an index past the end
\* is cut to the length.
SliceTo(s, index) == SubSeq(s, 1, IF index < Len(s) THEN index ELSE Len(s))
SliceFrom(s, index) == SubSeq(s, (IF index < Len(s) THEN index ELSE Len(s)) + 1, Len(s))

\* Variant: the string is added after the whole prompt.
add_string_at_end(default_prompt, additional_string, index) ==
    SliceTo(default_prompt, index) \o SliceFrom(default_prompt, index)
        \o additional_string

\* StringModifier.add_string_at_index
add_string_at_index(default_prompt, additional_string, index) ==
    LET first_part == SliceTo(default_prompt, index)
        second_part == SliceFrom(default_prompt, index)
    IN first_part \o additional_string \o second_part

\* prompt_content of generate_answer and generate_stream: a Prompt object
\* is truthy whatever its content.
PromptContent(prompt_to_use, name) ==
    IF prompt_to_use # <<>> THEN prompt_to_use[1].content
    ELSE add_string_at_index(SYSTEM_MESSAGE, name, 29)

\* The message assembler: system message, prior turns, the question.
format_history_to_openai_mesages(transformed_history, prompt_content, q) ==
    <<[role |-> "system", content |-> prompt_content]>>
        \o transformed_history
        \o <<[role |-> "human", content |-> q]>>

\* Variant: the key given by the caller wins.
_determine_api_key_caller_first(openai_api_key, user_openai_api_key) ==
    IF openai_api_key # None THEN openai_api_key ELSE user_openai_api_key

\* HeadlessQA._determine_api_key
_determine_api_key(openai_api_key, user_openai_api_key) ==
    IF user_openai_api_key # None THEN user_openai_api_key
    ELSE openai_api_key

\* HeadlessQA._determine_streaming
_determine_streaming(streaming) == streaming

\* AsyncIteratorCallbackHandler(): a new handler; n tells them apart (0:
\* made by __init__, c: made by the c-th call on the object).
NewHandler(n) == <<"AsyncIteratorCallbackHandler", n>>

\* HeadlessQA._determine_callback_array: one handler if streaming; the
\* empty sequence stands for the None it returns otherwise.
_determine_callback_array(streaming) ==
    IF streaming THEN <<NewHandler(0)>> ELSE <<>>

\* The fields of the object once __init__ has run on the data d.
Constructed(d) ==
    LET streaming == _determine_streaming(d.streaming)
    IN [openai_api_key |->
            _determine_api_key(d.openai_api_key, d.user_openai_api_key),
        user_openai_api_key |-> d.user_openai_api_key,
        streaming |-> streaming,
        chat_id |-> DefaultChat,
        callbacks |-> _determine_callback_array(streaming)]

\* generate_stream, lines 178-179: callback = AsyncIteratorCallbackHandler();
\* self.callbacks = [callback], before anything that can raise.
WithCallback(cfg, n) ==
    [cfg EXCEPT !.self = <<[@[1] EXCEPT !.callbacks = <<NewHandler(n)>>]>>]

\* ------------------------------------------------------- the history store
\* The timestamp the store gives the record of message id `id`.
message_time(id) == <<"time", id>>

\* createTurn: appends the record with its timestamp; its message id is its
\* position.
update_chat_history(st, rec) ==
    Append(st, [chat_id |-> rec.chat_id, user_message |-> rec.user_message,
                assistant |-> rec.assistant,
                message_time |-> message_time(Len(st) + 1)])

\* updateTurn: rewrites user_message and assistant of the record with that id.
update_message_by_id(st, id, user_message, assistant) ==
    [st EXCEPT ![id] = [@ EXCEPT !.user_message = user_message,
                                 !.assistant = assistant]]

\* getHistory: the records of the chat, oldest first.
get_chat_history(st, chat_id) == SelectSeq(st, LAMBDA r : r.chat_id = chat_id)

\* The history formatter: one (user text, assistant text) turn per record.
format_chat_history(h) ==
    [i \in 1..Len(h) |-> <<h[i].user_message, h[i].assistant>>]

\* The store when history loading, persona lookup or prompt resolution
\* raises: these come before update_chat_history, `rec` was never built.
StoreAtAbort(st, rec) == st

\* -------------------------------------------------------- generate_answer
\* The chat whose history generate_answer loads: get_chat_history(
\* self.chat_id) reads the field of the object, not the chat_id argument.
HistoryChat(self_chat_id, chat_id) == self_chat_id

\* Variant: user_message and assistant exchanged.
GenerateRecordSwapped(chat_id, user_message, answer) ==
    [chat_id |-> chat_id, user_message |-> answer, assistant |-> user_message]

\* CreateChatHistory(...) of the buffered path.
GenerateRecord(chat_id, user_message, answer) ==
    [chat_id |-> chat_id, user_message |-> user_message, assistant |-> answer]

\* Variant: the provider's exception is handled by persisting an empty answer.
AfterPredictPersistsAlways(st, chat_id, q, r) ==
    update_chat_history(st, GenerateRecord(chat_id, q, IF r = "fail" THEN "" ELSE r))

\* The store after predict_messages returned r ("fail": it raised).
AfterPredict(st, chat_id, q, r) ==
    IF r = "fail" THEN st
    ELSE update_chat_history(st, GenerateRecord(chat_id, q, r))

\* -------------------------------------------------------- generate_stream
\* Variant: the pending record echoes the question as its assistant text.
StreamRecordEcho(chat_id, user_message) ==
    [chat_id |-> chat_id, user_message |-> user_message,
     assistant |-> user_message]

\* CreateChatHistory(...) of the streaming path: the assistant field is "".
StreamRecord(chat_id, user_message) ==
    [chat_id |-> chat_id, user_message |-> user_message, assistant |-> ""]

\* Variant: the creation is awaited, the generator suspends before it.
StoreAfterFirstSuspension(st, rec) == st

\* The store when the generator first suspends, and the task made by
\* create_task first gets to run: update_chat_history is a plain call made
\* after create_task with no await in between, so the record is in it.
StoreAtFirstSuspension(st, rec) == update_chat_history(st, rec)

\* The callback sink the provider call of call c is wired to: the handler
\* made by this call (callback = AsyncIteratorCallbackHandler(); callbacks=
\* self.callbacks is read with no suspension point after it was assigned).
CallbackOf(c) == c

\* The token `async for token in callback.aiter()` binds next: the sink is
\* a queue, read in the order it was written.
SinkNext(q) == Head(q)

\* callback.aiter() can end: the done event is set and nothing is queued, or
\* a token was taken while done.wait() completed too.  aiter() awaits
\* queue.get() and done.wait() together and pops one of the completed
\* futures; when both have completed either is popped, and popping the
\* done signal ends the loop and loses the token taken.
AiterDone(q, tk, d) == d /\ (tk # <<>> \/ q = <<>>)

\* Variant: the newest token is put in front of the accumulator.
AccumulatePrepend(resp, token) == <<token>> \o resp

\* response_tokens.append(token)
Accumulate(resp, token) == Append(resp, token)

\* Variant: the frame carries the running total.
FrameAssistantTotal(resp, token) == Concat(resp)

\* streamed_chat_history.assistant = token
FrameAssistant(resp, token) == token

\* Variant: the record is updated on every token.
LoopStoreIncremental(st, id, q, resp) ==
    update_message_by_id(st, id, q, Concat(resp))

\* The store after one pass of the loop body: the loop does not touch it.
LoopStore(st, id, q, resp) == st

\* Variant: the task is not awaited.
RunAwaitedSkipped(t) == TRUE

\* `await run` is over once the background task has ended.
RunAwaited(t) == t \in {"finished", "crashed", "cancelled"}

\* Variant: no finally clause, the event is left as it was.
WrapDoneEventKept(d) == d

\* wrap_done's finally: event.set(), whatever the event was.
WrapDoneEvent(d) == TRUE

\* Variant: the generator body goes on without its consumer.
GeneratorCloseKeepsDraining(p) == "draining"

\* GeneratorExit thrown at the yield: no try/finally encloses it, so the
\* generator ends there and the code after the loop never runs.
GeneratorClose(p) == "closed"

\* Variant: the update is addressed to the newest record of the store.
FinalizeTargetNewest(st, id, chat_id) == Len(st)

\* message_id=str(streamed_chat_history.message_id): the update is addressed
\* to the id the creation of this call returned.
FinalizeTarget(st, id, chat_id) == id

\* wrap_done's `except Exception as e: logger.error(...)`: what it catches.
WrapDoneCatches(exc) == exc = "Exception"

\* How the task ends when the awaited call returns ("return") or raises:
\* an exception wrap_done does not catch ends the task.
TaskEnd(outcome) ==
    IF outcome = "return" \/ WrapDoneCatches(outcome) THEN "finished"
    ELSE "crashed"

\* Whether wrap_done logs an exception for this outcome.
Logged(outcome) == outcome # "return" /\ WrapDoneCatches(outcome)

\* Variant: awaiting a task never raises.
AwaitRunRaisesNever(t) == FALSE

\* `await run` re-raises in the generator the exception that ended the
\* task, the CancelledError of a cancelled task included.
AwaitRunRaises(t) == t \in {"crashed", "cancelled"}

\* The payload yielded for `token`.
Frame(c, token) ==
    [chat_id |-> chat[c], message_id |-> msg[c],
     message_time |-> message_time(msg[c]), user_message |-> question[c],
     assistant |-> FrameAssistant(Accumulate(response_tokens[c], token), token)]

\* ----------------------------------------------------------------- Init
\* No call has been made.
CallInit ==
    /\ store = <<>>
    /\ mode = [c \in Calls |-> "none"]
    /\ chat = [c \in Calls |-> "none"]
    /\ question = [c \in Calls |-> "none"]
    /\ pc = [c \in Calls |-> "idle"]
    /\ queue = [c \in Calls |-> <<>>]
    /\ done = [c \in Calls |-> FALSE]
    /\ task = [c \in Calls |-> "none"]
    /\ failed = [c \in Calls |-> FALSE]
    /\ produced = [c \in Calls |-> <<>>]
    /\ response_tokens = [c \in Calls |-> <<>>]
    /\ frames = [c \in Calls |-> <<>>]
    /\ msg = [c \in Calls |-> 0]
    /\ creates = [c \in Calls |-> 0]
    /\ updates = [c \in Calls |-> 0]
    /\ provCalls = [c \in Calls |-> 0]
    /\ abandoned = [c \in Calls |-> FALSE]
    /\ history = [c \in Calls |->
                    [chat_id |-> "none", turns |-> <<>>, callbacks |-> <<>>]]
    /\ taken = [c \in Calls |-> <<>>]
    /\ cause = [c \in Calls |-> "none"]

\* The fields of HeadlessQA after BaseModel.__init__ stored the data.
ConfigData(openai_api_key, user_openai_api_key, streaming) ==
    [data |-> [openai_api_key |-> openai_api_key,
               user_openai_api_key |-> user_openai_api_key,
               streaming |-> streaming],
     self |-> <<>>]

\* What a prompt resolution finds, before it ran.
PromptData(prompt_to_use, name) ==
    [prompt_to_use |-> prompt_to_use, name |-> name, path |-> "none",
     calls |-> 0, messages |-> <<>>]

\* Calls are made on one object, built with the defaults of the fields.
Init ==
    /\ CallInit
    /\ config = [ConfigData(None, None, FALSE) EXCEPT
                    !.self = <<Constructed(ConfigData(None, None, FALSE).data)>>]
    /\ prompt = PromptData(<<>>, <<>>)

\* Any data is given to the constructor, any prompt and persona are found.
PureInit ==
    /\ CallInit
    /\ config \in {ConfigData(k, u, st) : k \in Keys, u \in Keys, st \in BOOLEAN}
    /\ prompt \in {PromptData(p, n) : p \in Prompts, n \in Names}

\* The call is over: its coroutine has ended and its task, if any, finished.
Over(c) ==
    /\ pc[c] \in {"returned", "error", "exhausted", "closed", "cancelled"}
    /\ task[c] \in {"none", "finished", "crashed", "cancelled"}

\* Exceptions raised so far by call c and its task: one in the task if it
\* logged one or was ended by one, and one in the call, unless that one is
\* the task's (the exception re-raised by `await run`, or the CancelledError
\* of the cancellation that ended the task).
RaisesOf(c) ==
    (IF failed[c] \/ task[c] \in {"crashed", "cancelled"} THEN 1 ELSE 0)
    + (IF \/ cause[c] = "none"
          \/ cause[c] = "provider" /\ mode[c] = "stream"
          \/ cause[c] = "await run" /\ task[c] = "cancelled"
       THEN 0 ELSE 1)

\* The provider call of a stream has raised in the background task.
ProviderRaised(c) == failed[c] \/ task[c] = "crashed"

\* The generator of call c has not ended.
InFlight(c) == pc[c] \in {"draining", "yielded", "awaitrun"}

\* The frame sequence of call c is exhausted and the finalizing update has
\* run with the join of the tokens accumulated.
Finalized(c) ==
    IF pc[c] = "exhausted" /\ updates[c] = 1
    THEN store[msg[c]].assistant = Concat(response_tokens[c])
    ELSE FALSE

\* The finalizing update was called and raised: the store's exception
\* left the generator, and the record is left pending.
UpdateRaised(c) ==
    IF pc[c] = "error" /\ cause[c] = "update_message_by_id" /\ updates[c] = 0
    THEN store[msg[c]].assistant = ""
    ELSE FALSE

\* The exception that ended the task was raised at the consumer by
\* `await run`, and the record is left pending.
Surfaced(c) ==
    IF mode[c] = "stream" /\ pc[c] = "error" /\ cause[c] = "provider"
       /\ updates[c] = 0
    THEN store[msg[c]].assistant = ""
    ELSE FALSE

RECURSIVE RaisesUpTo(_)
RaisesUpTo(n) == IF n = 0 THEN 0 ELSE RaisesOf(n) + RaisesUpTo(n - 1)

\* One more token may be pushed, or exception raised, in this run.
CanAdd == Total(produced) + RaisesUpTo(MaxCalls) < MaxEvents

\* Calls are numbered in the order they are made, by two clients in turn;
\* a client makes its next call when its previous one is over.
CanStart(c) ==
    /\ mode[c] = "none"
    /\ IF c = 1 THEN TRUE ELSE mode[c - 1] # "none"
    /\ IF c <= 2 THEN TRUE ELSE Over(c - 2)

streamVars == <<queue, taken, done, task, failed, produced, response_tokens,
                frames, updates, abandoned>>

\* ------------------------------------------------------ generate_answer
\* History loading, persona lookup or prompt resolution raises: the call
\* ends before the provider is called and before anything is persisted.
\* (The persona lookup reads self.brain_id, a field HeadlessQA does not
\* declare; whether that read succeeds is part of this outcome.)
GenerateAborts(c, chat_id, q) ==
    /\ CanStart(c)
    /\ CanAdd
    /\ mode' = [mode EXCEPT ![c] = "generate"]
    /\ chat' = [chat EXCEPT ![c] = chat_id]
    /\ question' = [question EXCEPT ![c] = q]
    /\ pc' = [pc EXCEPT ![c] = "error"]
    /\ cause' = [cause EXCEPT ![c] = "lookup"]
    /\ store' = StoreAtAbort(store, GenerateRecord(chat_id, q, ""))
    /\ UNCHANGED <<msg, creates, provCalls>>
    /\ UNCHANGED streamVars
    /\ UNCHANGED history
    /\ UNCHANGED pureVars

\* The whole of generate_answer: one provider call with outcome r; the
\* provider's exception leaves the function, or the record is created and
\* the response built, unless one of the calls made for them raises (late).
Generate(c, chat_id, q, r, late) ==
    /\ CanStart(c)
    /\ r = "fail" => late = "none"
    /\ (r = "fail" \/ late # "none") => CanAdd
    /\ LET loaded == HistoryChat(config.self[1].chat_id, chat_id)
       IN history' = [history EXCEPT ![c] =
             [chat_id |-> loaded,
              turns |-> format_chat_history(get_chat_history(store, loaded)),
              callbacks |-> config.self[1].callbacks]]
    /\ mode' = [mode EXCEPT ![c] = "generate"]
    /\ chat' = [chat EXCEPT ![c] = chat_id]
    /\ question' = [question EXCEPT ![c] = q]
    /\ provCalls' = [provCalls EXCEPT ![c] = @ + 1]
    /\ store' = IF late \in {"prompt_to_use_id", "update_chat_history"}
                THEN store
                ELSE AfterPredict(store, chat_id, q, r)
    /\ creates' = [creates EXCEPT ![c] = Len(store') - Len(store)]
    /\ LET raised == r = "fail" \/ late # "none"
       IN /\ msg' = [msg EXCEPT ![c] = IF raised THEN 0 ELSE Len(store')]
          /\ pc' = [pc EXCEPT ![c] = IF raised THEN "error" ELSE "returned"]
          /\ cause' = [cause EXCEPT ![c] =
                IF r = "fail" THEN "provider"
                ELSE late]
    /\ UNCHANGED streamVars
    /\ UNCHANGED pureVars

\* ------------------------------------------------------ generate_stream
\* The first __anext__ raises before create_task (see GenerateAborts); the
\* object's callbacks are replaced all the same.
StreamAborts(c, chat_id, q) ==
    /\ CanStart(c)
    /\ CanAdd
    /\ config' = WithCallback(config, c)
    /\ mode' = [mode EXCEPT ![c] = "stream"]
    /\ chat' = [chat EXCEPT ![c] = chat_id]
    /\ question' = [question EXCEPT ![c] = q]
    /\ pc' = [pc EXCEPT ![c] = "error"]
    /\ cause' = [cause EXCEPT ![c] = "lookup"]
    /\ store' = StoreAtAbort(store, StreamRecord(chat_id, q))
    /\ UNCHANGED <<msg, creates, provCalls>>
    /\ UNCHANGED <<queue, taken, done, task, failed, produced, response_tokens,
                   frames, updates, abandoned>>
    /\ UNCHANGED history
    /\ UNCHANGED prompt

\* The first __anext__ up to the first suspension inside callback.aiter():
\* new sink, create_task (the task runs only once this coroutine suspends),
\* the pending record is created, the payload is built.
StreamStart(c, chat_id, q) ==
    /\ CanStart(c)
    /\ config' = WithCallback(config, c)
    /\ mode' = [mode EXCEPT ![c] = "stream"]
    /\ chat' = [chat EXCEPT ![c] = chat_id]
    /\ question' = [question EXCEPT ![c] = q]
    /\ queue' = [queue EXCEPT ![c] = <<>>]
    /\ done' = [done EXCEPT ![c] = FALSE]
    /\ task' = [task EXCEPT ![c] = "running"]
    /\ provCalls' = [provCalls EXCEPT ![c] = @ + 1]
    /\ store' = StoreAtFirstSuspension(store, StreamRecord(chat_id, q))
    /\ creates' = [creates EXCEPT ![c] = Len(store') - Len(store)]
    /\ msg' = [msg EXCEPT ![c] = IF Len(store') > Len(store)
                                  THEN Len(store') ELSE 0]
    /\ pc' = [pc EXCEPT ![c] = "draining"]
    /\ UNCHANGED <<taken, failed, produced, response_tokens, frames, updates,
                   abandoned, cause>>
    /\ UNCHANGED history
    /\ UNCHANGED prompt

\* The first __anext__ raises after create_task: in the arguments of the
\* record or in its creation (no record), or in the payload (the record
\* exists).  The task is scheduled and runs once the exception has left
\* the generator; nothing reads its sink.
StreamStartRaises(c, chat_id, q, late) ==
    /\ CanStart(c)
    /\ CanAdd
    /\ config' = WithCallback(config, c)
    /\ mode' = [mode EXCEPT ![c] = "stream"]
    /\ chat' = [chat EXCEPT ![c] = chat_id]
    /\ question' = [question EXCEPT ![c] = q]
    /\ queue' = [queue EXCEPT ![c] = <<>>]
    /\ done' = [done EXCEPT ![c] = FALSE]
    /\ task' = [task EXCEPT ![c] = "running"]
    /\ provCalls' = [provCalls EXCEPT ![c] = @ + 1]
    /\ store' = IF late = "prompt_to_use"
                THEN update_chat_history(store, StreamRecord(chat_id, q))
                ELSE store
    /\ creates' = [creates EXCEPT ![c] = Len(store') - Len(store)]
    /\ pc' = [pc EXCEPT ![c] = "error"]
    /\ cause' = [cause EXCEPT ![c] = late]
    /\ UNCHANGED <<msg, taken, failed, produced, response_tokens, frames,
                   updates, abandoned>>
    /\ UNCHANGED history
    /\ UNCHANGED prompt

\* Background task: on_llm_new_token puts the token into the sink.
ProviderPush(c, token) ==
    /\ task[c] = "running"
    /\ CanAdd
    /\ produced' = [produced EXCEPT ![c] = Append(@, token)]
    /\ queue' = [queue EXCEPT ![CallbackOf(c)] = Append(@, token)]
    /\ UNCHANGED <<store, mode, chat, question, pc, done, task, failed,
                   response_tokens, frames, msg, creates, updates, provCalls,
                   abandoned, taken, cause>>
    /\ UNCHANGED history
    /\ UNCHANGED pureVars

\* Background task: the model call is over and the handler sets the done
\* event (on_llm_end, or on_llm_error when the call failed); the chain and
\* wrap_done have still to return or raise.
ProviderEnd(c) ==
    /\ task[c] = "running"
    /\ done' = [done EXCEPT ![CallbackOf(c)] = TRUE]
    /\ task' = [task EXCEPT ![c] = "closing"]
    /\ UNCHANGED <<store, mode, chat, question, pc, queue, failed, produced,
                   response_tokens, frames, msg, creates, updates, provCalls,
                   abandoned, taken, cause>>
    /\ UNCHANGED history
    /\ UNCHANGED pureVars

\* wrap_done from the point where the awaited call returns or raises: the
\* except clause, then the finally clause, then the task ends; there is no
\* suspension point in between.
WrapDoneEnds(c, outcome) ==
    /\ outcome # "return" => CanAdd
    /\ failed' = [failed EXCEPT ![c] = Logged(outcome)]
    /\ done' = [done EXCEPT ![CallbackOf(c)] = WrapDoneEvent(@)]
    /\ task' = [task EXCEPT ![c] = TaskEnd(outcome)]
    /\ UNCHANGED <<store, mode, chat, question, pc, queue, produced,
                   response_tokens, frames, msg, creates, updates, provCalls,
                   abandoned, taken, cause>>
    /\ UNCHANGED history
    /\ UNCHANGED pureVars

\* Background task: the awaited call raises with no handler signalled
\* (before the model call began, or cancelled).
ProviderFail(c, exc) ==
    /\ task[c] = "running"
    /\ WrapDoneEnds(c, exc)

\* Background task: after the done event the awaited call returns, or
\* re-raises the model call's failure.
TaskFinish(c, outcome) ==
    /\ task[c] = "closing"
    /\ WrapDoneEnds(c, outcome)

\* update_message_by_id with the joined accumulator; the generator ends.
Finalize(c) ==
    /\ store' = update_message_by_id(store,
                                     FinalizeTarget(store, msg[c], chat[c]),
                                     question[c], Concat(response_tokens[c]))
    /\ updates' = [updates EXCEPT ![c] = @ + 1]
    /\ pc' = [pc EXCEPT ![c] = "exhausted"]
    /\ UNCHANGED cause

\* update_message_by_id raises: the exception leaves the generator and
\* the record is left as it was.
FinalizeRaises(c) ==
    /\ CanAdd
    /\ pc' = [pc EXCEPT ![c] = "error"]
    /\ cause' = [cause EXCEPT ![c] = "update_message_by_id"]
    /\ UNCHANGED <<store, updates>>

\* `await run` is over: the task's exception leaves the generator (the
\* CancelledError of a task cancelled with the caller: the caller is gone),
\* or the generator goes on to the finalizing update, with outcome upd.
AfterRun(c, upd) ==
    IF AwaitRunRaises(task[c])
    THEN /\ upd = "updated"
         /\ IF task[c] = "cancelled"
            THEN /\ pc' = [pc EXCEPT ![c] = "cancelled"]
                 /\ cause' = [cause EXCEPT ![c] = "await run"]
                 /\ abandoned' = [abandoned EXCEPT ![c] = TRUE]
            ELSE /\ pc' = [pc EXCEPT ![c] = "error"]
                 /\ cause' = [cause EXCEPT ![c] = "provider"]
                 /\ UNCHANGED abandoned
         /\ UNCHANGED <<store, updates>>
    ELSE /\ IF upd = "raises" THEN FinalizeRaises(c) ELSE Finalize(c)
         /\ UNCHANGED abandoned

\* The sink's queue.get(), awaited by aiter(), takes the next token; a
\* queue.get() left pending by a cancelled aiter() still takes one.
SinkTake(c) ==
    /\ \/ pc[c] = "draining"
       \/ pc[c] = "cancelled" /\ cause[c] = "callback.aiter"
    /\ taken[c] = <<>>
    /\ queue[c] # <<>>
    /\ LET token == SinkNext(queue[c])
           rest == IF token = Head(queue[c]) THEN Tail(queue[c])
                   ELSE SubSeq(queue[c], 1, Len(queue[c]) - 1)
       IN /\ queue' = [queue EXCEPT ![c] = rest]
          /\ taken' = [taken EXCEPT ![c] = <<token>>]
    /\ UNCHANGED <<store, mode, chat, question, pc, done, task, failed,
                   produced, response_tokens, frames, msg, creates, updates,
                   provCalls, abandoned, cause>>
    /\ UNCHANGED history
    /\ UNCHANGED pureVars

\* Generator: aiter() yields the token taken; one pass of the loop body, up
\* to the yield.
ConsumeToken(c) ==
    /\ pc[c] = "draining"
    /\ taken[c] # <<>>
    /\ LET token == taken[c][1]
       IN /\ response_tokens' = [response_tokens EXCEPT ![c] = Accumulate(@, token)]
          /\ frames' = [frames EXCEPT ![c] = Append(@, Frame(c, token))]
          /\ store' = LoopStore(store, msg[c], question[c],
                                Accumulate(response_tokens[c], token))
    /\ taken' = [taken EXCEPT ![c] = <<>>]
    /\ pc' = [pc EXCEPT ![c] = "yielded"]
    /\ UNCHANGED <<mode, chat, question, queue, done, task, failed, produced,
                   msg, creates, updates, provCalls, abandoned, cause>>
    /\ UNCHANGED history
    /\ UNCHANGED pureVars

\* Caller: asks for the next frame.
Resume(c) ==
    /\ pc[c] = "yielded"
    /\ pc' = [pc EXCEPT ![c] = "draining"]
    /\ UNCHANGED <<store, mode, chat, question, queue, done, task, failed,
                   produced, response_tokens, frames, msg, creates, updates,
                   provCalls, abandoned, taken, cause>>
    /\ UNCHANGED history
    /\ UNCHANGED pureVars

\* Caller: stops iterating while the generator is suspended at its yield;
\* the generator is closed there.
Abandon(c) ==
    /\ pc[c] = "yielded"
    /\ pc' = [pc EXCEPT ![c] = GeneratorClose(pc[c])]
    /\ abandoned' = [abandoned EXCEPT ![c] = TRUE]
    /\ UNCHANGED <<store, mode, chat, question, queue, done, task, failed,
                   produced, response_tokens, frames, msg, creates, updates,
                   provCalls, taken, cause>>
    /\ UNCHANGED history
    /\ UNCHANGED pureVars

\* Caller: is cancelled while it awaits the next frame, and the generator
\* is suspended at `await run` for a task that has not ended: the
\* cancellation is passed to the task.  wrap_done does not catch the
\* CancelledError, its finally clause sets the event, and the task ends
\* cancelled; the generator is still suspended, and learns of it when it
\* is woken (FinishAwait).
CancelRun(c) ==
    /\ pc[c] = "awaitrun"
    /\ task[c] \in {"running", "closing"}
    /\ CanAdd
    /\ task' = [task EXCEPT ![c] = "cancelled"]
    /\ failed' = [failed EXCEPT ![c] = Logged("CancelledError")]
    /\ done' = [done EXCEPT ![CallbackOf(c)] = WrapDoneEvent(@)]
    /\ UNCHANGED <<store, mode, chat, question, pc, queue, produced,
                   response_tokens, frames, msg, creates, updates, provCalls,
                   abandoned, taken, cause>>
    /\ UNCHANGED history
    /\ UNCHANGED pureVars

\* Caller: is cancelled while it awaits the next frame, and CancelledError
\* is raised in the generator where it is suspended and ends it: inside
\* callback.aiter(), whose asyncio.wait cancels neither its queue.get() nor
\* the background task, or at `await run` when the task has ended by itself
\* and the generator has not been woken yet (the task is not affected).
Cancel(c) ==
    /\ \/ pc[c] = "draining"
       \/ pc[c] = "awaitrun" /\ task[c] \in {"finished", "crashed"}
    /\ CanAdd
    /\ pc' = [pc EXCEPT ![c] = "cancelled"]
    /\ cause' = [cause EXCEPT ![c] = IF pc[c] = "draining"
                                     THEN "callback.aiter" ELSE "await run"]
    /\ abandoned' = [abandoned EXCEPT ![c] = TRUE]
    /\ UNCHANGED <<store, mode, chat, question, queue, done, task, failed,
                   produced, response_tokens, frames, msg, creates, updates,
                   provCalls, taken>>
    /\ UNCHANGED history
    /\ UNCHANGED pureVars

\* Generator: the loop ends, and a token taken with it is lost; `await run`
\* is over at once or suspends.
ConsumeDone(c, upd) ==
    /\ pc[c] = "draining"
    /\ AiterDone(queue[c], taken[c], done[c])
    /\ taken' = [taken EXCEPT ![c] = <<>>]
    /\ IF RunAwaited(task[c])
       THEN AfterRun(c, upd)
       ELSE /\ upd = "updated"
            /\ pc' = [pc EXCEPT ![c] = "awaitrun"]
            /\ UNCHANGED <<store, updates, cause, abandoned>>
    /\ UNCHANGED <<mode, chat, question, queue, done, task, failed, produced,
                   response_tokens, frames, msg, creates, provCalls>>
    /\ UNCHANGED history
    /\ UNCHANGED pureVars

\* Generator: `await run` is over: the record is finalized, or the task's
\* exception is raised.
FinishAwait(c, upd) ==
    /\ pc[c] = "awaitrun"
    /\ RunAwaited(task[c])
    /\ AfterRun(c, upd)
    /\ UNCHANGED <<mode, chat, question, queue, done, task, failed, produced,
                   response_tokens, frames, msg, creates, provCalls, taken>>
    /\ UNCHANGED history
    /\ UNCHANGED pureVars

Next ==
    \/ \E c \in Calls : \E rq \in RequestsFor(c) :
          GenerateAborts(c, rq[1], rq[2])
    \/ \E c \in Calls : \E rq \in RequestsFor(c), r \in Answers \cup {"fail"},
                          late \in Late \cup {"none"} :
          Generate(c, rq[1], rq[2], r, late)
    \/ \E c \in Calls : \E rq \in RequestsFor(c) :
          StreamAborts(c, rq[1], rq[2])
    \/ \E c \in Calls : \E rq \in RequestsFor(c) :
          StreamStart(c, rq[1], rq[2])
    \/ \E c \in Calls : \E rq \in RequestsFor(c), late \in Late :
          StreamStartRaises(c, rq[1], rq[2], late)
    \/ \E c \in Calls : ProviderPush(c, Tokens[Total(produced) + 1])
    \/ \E c \in Calls : ProviderEnd(c)
    \/ \E c \in Calls, exc \in Raised : ProviderFail(c, exc)
    \/ \E c \in Calls, outcome \in Raised \cup {"return"} :
          TaskFinish(c, outcome)
    \/ \E c \in Calls : SinkTake(c)
    \/ \E c \in Calls : ConsumeToken(c)
    \/ \E c \in Calls : Resume(c)
    \/ \E c \in Calls : Abandon(c)
    \/ \E c \in Calls : CancelRun(c)
    \/ \E c \in Calls : Cancel(c)
    \/ \E c \in Calls, upd \in UpdateOutcomes : ConsumeDone(c, upd)
    \/ \E c \in Calls, upd \in UpdateOutcomes : FinishAwait(c, upd)

Spec == Init /\ [][Next]_vars

\* ------------------------------------------- construction, prompt: steps
\* HeadlessQA.__init__ after BaseModel.__init__: the three fields are set.
Construct ==
    /\ config.self = <<>>
    /\ config' = [config EXCEPT !.self = <<Constructed(config.data)>>]
    /\ UNCHANGED prompt
    /\ UNCHANGED callVars

\* A call on the constructed object that assembles the messages for the
\* prompt and persona found.
Assemble(path) ==
    /\ config.self # <<>>
    /\ prompt.calls < MaxCalls
    /\ prompt' = [prompt EXCEPT
          !.path = path,
          !.calls = @ + 1,
          !.messages = format_history_to_openai_mesages(
                          <<>>, PromptContent(prompt.prompt_to_use, prompt.name),
                          QuestionText)]

\* generate_answer up to the messages handed to predict_messages; the
\* object's callbacks are passed to _create_llm as they are.
GeneratePrompt ==
    /\ Assemble("generate")
    /\ UNCHANGED config
    /\ UNCHANGED callVars

\* generate_stream up to the messages handed to ChatPromptTemplate, which
\* keeps message objects as they are; the object's callbacks are replaced
\* by the call's new handler.
StreamPrompt ==
    /\ Assemble("stream")
    /\ config' = WithCallback(config, prompt.calls + 1)
    /\ UNCHANGED callVars

\* generate_stream raising at get_chat_history or at a lookup: the
\* callbacks are replaced, no messages are assembled.
StreamPromptAborts ==
    /\ config.self # <<>>
    /\ prompt.calls < MaxCalls
    /\ prompt' = [prompt EXCEPT !.path = "aborted", !.calls = @ + 1]
    /\ config' = WithCallback(config, prompt.calls + 1)
    /\ UNCHANGED callVars

PureNext ==
    \/ Construct
    \/ GeneratePrompt
    \/ StreamPrompt
    \/ StreamPromptAborts

PureSpec == PureInit /\ [][PureNext]_vars

\* The event loop runs every ready coroutine, the provider call comes to an
\* end (it completes or raises), and the caller asks for the next frame
\* unless it abandons the iteration or is cancelled: a generator that was
\* closed or cancelled has no step left, and none is forced on it.
Fairness ==
    \A c \in Calls :
        /\ WF_vars(ProviderEnd(c) \/ \E exc \in Raised : ProviderFail(c, exc))
        /\ WF_vars(\E outcome \in Raised \cup {"return"} : TaskFinish(c, outcome))
        /\ WF_vars(SinkTake(c))
        /\ WF_vars(ConsumeToken(c)
                      \/ \E upd \in UpdateOutcomes : ConsumeDone(c, upd))
        /\ WF_vars(\E upd \in UpdateOutcomes : FinishAwait(c, upd))
        /\ WF_vars(Resume(c))

FairSpec == Init /\ [][Next]_vars /\ Fairness

\* ------------------------------------------------------------ properties
Completed(c) == pc[c] \in {"returned", "exhausted"}
Streaming(c) == mode[c] = "stream" /\ pc[c] # "error"
YieldedTokens(c) == Assistants(frames[c])

\* C1: every call of generate_answer or generate_stream that runs to
\* completion has called update_chat_history exactly once, the record it
\* created carries the call's question as user_message, no two calls share a
\* record, and the store holds one record per creation.
C1_OneRecordPerQuestion ==
    /\ \A c \in Calls :
          Completed(c) =>
             /\ creates[c] = 1
             /\ msg[c] \in 1..Len(store)
             /\ store[msg[c]].user_message = question[c]
             /\ store[msg[c]].chat_id = chat[c]
    /\ \A c, d \in Calls : (c # d /\ msg[c] # 0) => msg[c] # msg[d]
    /\ Len(store) = Cardinality({c \in Calls : creates[c] = 1})
    /\ \A c \in Calls : creates[c] <= 1

C1_Witness ==
    \E c, d \in Calls :
        /\ mode[c] = "generate" /\ pc[c] = "returned"
        /\ mode[d] = "stream" /\ pc[d] = "exhausted"
        /\ Len(store) = 2

\* C2: the record of a streaming call is finalized at most once, exactly once
\* when the frame sequence is exhausted, only when the sink is done and the
\* provider call has ended or failed; and a step changes a record only by
\* finalizing a still pending record of the call that created it.
C2_ForwardOnly ==
    /\ [](\A c \in Calls :
            /\ updates[c] <= 1
            /\ (pc[c] = "exhausted") <=> (updates[c] = 1)
            /\ updates[c] = 1 => (done[c] /\ task[c] \in {"closing", "finished"}))
    /\ [][\A i \in 1..Len(store) :
            store'[i] # store[i] =>
               \E c \in Calls :
                  /\ msg[c] = i
                  /\ updates[c] = 0 /\ updates'[c] = 1
                  /\ store[i].assistant = ""]_vars

C2_Witness ==
    \E c \in Calls :
        /\ updates[c] = 1 /\ ~failed[c]
        /\ store[msg[c]].assistant = "ab"

\* C3: once the frame sequence is exhausted, the assistant fields of the
\* yielded frames, concatenated in yield order, are the assistant text of the
\* record (zero frames: the empty text).
C3_FramesConcatIsFinalText ==
    \A c \in Calls :
        pc[c] = "exhausted" =>
           Concat(YieldedTokens(c)) = store[msg[c]].assistant

C3_Witness ==
    \E c \in Calls :
        /\ pc[c] = "exhausted"
        /\ Len(frames[c]) = 2
        /\ store[msg[c]].assistant = "ab"

\* C4 as stated: once the provider call has raised in the background task
\* (before any token or after some), a consumer that keeps draining reaches
\* the end of the frame sequence, and the finalizing update has then run
\* with the join of the tokens accumulated so far, possibly the empty text
\* (or the store has raised in that update).
C4_FailedStreamTerminates ==
    \A c \in Calls :
        (ProviderRaised(c) /\ InFlight(c)) ~>
            (abandoned[c] \/ Finalized(c) \/ UpdateRaised(c))

\* C4 (amended): once the provider call has raised an Exception in the
\* background task, which wrap_done catches and logs, a consumer that keeps
\* draining reaches the end of the frame sequence and the finalizing update
\* has then run with the join of the tokens accumulated, possibly the empty
\* text (or the store has raised in that update); an exception that
\* wrap_done does not catch ends the sequence too, but with that exception
\* raised at the consumer and no finalizing update.
C4_CaughtFailureTerminates ==
    \A c \in Calls :
        (ProviderRaised(c) /\ InFlight(c)) ~>
            \/ abandoned[c]
            \/ IF failed[c] THEN Finalized(c) \/ UpdateRaised(c)
               ELSE Surfaced(c)

C4_Witness ==
    \E c \in Calls :
        /\ failed[c] /\ ~abandoned[c]
        /\ pc[c] = "exhausted"
        /\ Len(produced[c]) = 1
        /\ store[msg[c]].assistant = Concat(produced[c])

\* C5: in every state of a streaming call before its frame sequence is
\* exhausted (in particular once a frame has been yielded) the record exists
\* with empty assistant text and has not been updated; when it has been
\* updated no frame can be yielded any more: the loop over the sink is over
\* (the sink is done, the provider task has finished, no token is held for
\* the loop) and the generator is exhausted.
C5_PendingUntilExhausted ==
    \A c \in Calls :
        Streaming(c) =>
           /\ msg[c] \in 1..Len(store)
           /\ pc[c] # "exhausted" =>
                 (store[msg[c]].assistant = "" /\ updates[c] = 0)
           /\ updates[c] = 1 =>
                 (taken[c] = <<>> /\ done[c] /\ task[c] = "finished"
                  /\ pc[c] = "exhausted")

C5_Witness ==
    \E c \in Calls :
        /\ pc[c] = "yielded"
        /\ Len(frames[c]) = 2
        /\ task[c] = "finished"
        /\ store[msg[c]].assistant = ""

\* C6: the tokens yielded so far are a prefix of the tokens the provider has
\* pushed, in the same order, and once the frame sequence is exhausted the
\* two are equal: no token is dropped, duplicated or reordered.
C6_YieldOrder ==
    \A c \in Calls :
        Streaming(c) =>
           /\ IsPrefix(YieldedTokens(c), produced[c])
           /\ pc[c] = "exhausted" => YieldedTokens(c) = produced[c]

\* C7: the record is updated only when the sink has reported end-of-stream
\* and the background task has finished, and from then on the provider
\* pushes no token for that call.
C7_FinalizeAfterDoneAndRun ==
    /\ [](\A c \in Calls : updates[c] >= 1 => (done[c] /\ task[c] = "finished"))
    /\ [][\A c \in Calls :
            /\ updates'[c] # updates[c] => (done[c] /\ task[c] = "finished")
            /\ updates[c] >= 1 => produced'[c] = produced[c]]_vars

C7_Witness ==
    \E c \in Calls :
        /\ pc[c] = "awaitrun"
        /\ done[c] /\ task[c] = "closing"
        /\ updates[c] = 0
        /\ Len(response_tokens[c]) >= 1

\* C8: a generate_answer call whose provider call raises ends with the error
\* at the caller, has called the provider once, and leaves the history store
\* as it was; a call that returns has called the provider once and created
\* its record.
C8_BufferedFailureLeavesStore ==
    /\ [](\A c \in Calls :
            mode[c] = "generate" =>
               /\ provCalls[c] <= 1
               /\ pc[c] \in {"error", "returned"}
               /\ cause[c] = "provider" =>
                     (pc[c] = "error" /\ provCalls[c] = 1
                      /\ creates[c] = 0 /\ msg[c] = 0)
               /\ pc[c] = "returned" => (provCalls[c] = 1 /\ creates[c] = 1))
    /\ [][\A c \in Calls :
            (mode[c] = "none" /\ mode'[c] = "generate"
                /\ cause'[c] = "provider") =>
               /\ pc'[c] = "error"
               /\ store' = store
               /\ creates' = creates]_vars

C8_Witness ==
    \E c \in Calls :
        /\ mode[c] = "generate" /\ pc[c] = "error" /\ provCalls[c] = 1
        /\ cause[c] = "provider"
        /\ Len(store) = 1

\* The task of call c has ended and its sink holds nothing unread: the
\* state in which a generator that is still iterated makes the finalizing
\* update.
ReadyToFinalize(c) ==
    /\ mode[c] = "stream"
    /\ RunAwaited(task[c]) /\ ~AwaitRunRaises(task[c])
    /\ done[c] /\ queue[c] = <<>> /\ taken[c] = <<>>

\* A step of call c that calls update_message_by_id.
FinalizingStep(c) ==
    \E upd \in UpdateOutcomes :
        /\ ConsumeDone(c, upd) \/ FinishAwait(c, upd)
        /\ updates'[c] # updates[c] \/ cause'[c] = "update_message_by_id"

\* C9 as stated: after the caller abandoned the iteration, the update of
\* the pending record to the final text can still be made: once the
\* background task has completed and the sink holds nothing unread, a step
\* that makes the update is possible.
C9_AbandonedCanFinalize ==
    \A c \in Calls :
        (abandoned[c] /\ ReadyToFinalize(c)) => ENABLED FinalizingStep(c)

\* C9 amended: once the caller has abandoned the iteration (the generator
\* was closed at its yield, or the caller was cancelled while the generator
\* was suspended) the generator has ended, the finalizing update never runs
\* and the record stays pending with empty assistant text.  Only the
\* background task can still complete: abandoning at a yield or a
\* cancellation inside callback.aiter() leaves it as it is, and it goes on
\* to its end.  A cancellation at `await run` leaves a task that has ended
\* as it is and cancels a task that has not: that task ends cancelled
\* before the generator does, with no update made then or later.
C9_AbandonedStaysPending ==
    /\ [](\A c \in Calls :
            /\ abandoned[c] =>
                  /\ pc[c] \in {"closed", "cancelled"}
                  /\ updates[c] = 0
                  /\ store[msg[c]].assistant = ""
            /\ task[c] = "cancelled" =>
                  /\ pc[c] \in {"awaitrun", "cancelled"}
                  /\ done[c] /\ ~failed[c]
                  /\ updates[c] = 0
                  /\ store[msg[c]].assistant = ""
                  /\ pc[c] = "cancelled" => cause[c] = "await run")
    /\ [][\A c \in Calls :
            /\ (task[c] # "cancelled" /\ task'[c] = "cancelled") =>
                  /\ pc[c] = "awaitrun" /\ pc'[c] = "awaitrun"
                  /\ task[c] \in {"running", "closing"}
                  /\ ~abandoned'[c]
            /\ (~abandoned[c] /\ abandoned'[c]) =>
                  /\ updates'[c] = 0
                  /\ task'[c] = task[c] /\ done'[c] = done[c]
                  /\ pc[c] = "awaitrun" => task[c] \in {"finished", "crashed", "cancelled"}
            /\ abandoned[c] =>
                  /\ pc'[c] = pc[c]
                  /\ task[c] = "running" =>
                        task'[c] \in {"running", "closing", "finished", "crashed"}
                  /\ task[c] = "closing" =>
                        task'[c] \in {"closing", "finished", "crashed"}
                  /\ task[c] \in {"finished", "crashed", "cancelled"} =>
                        task'[c] = task[c]]_vars

\* The caller abandoned after the first of two tokens; the task went on,
\* pushed the second token and finished, and the record is still pending.
C9_Witness ==
    \E c \in Calls :
        /\ abandoned[c] /\ pc[c] = "closed"
        /\ task[c] = "finished" /\ ~failed[c]
        /\ Len(produced[c]) = 2 /\ Len(frames[c]) = 1
        /\ store[msg[c]].assistant = ""

\* C10: two streaming calls for different chats do not interfere: their
\* records are distinct, the frames of each carry the tokens of its own
\* provider call, in order, and a finalized record holds its own chat,
\* question and the join of the tokens of its own provider call, while the
\* other call's record is pending or holds that call's text.
C10_DifferentChatsIndependent ==
    \A c, d \in Calls :
        (c # d /\ Streaming(c) /\ Streaming(d) /\ chat[c] # chat[d]) =>
           /\ msg[c] # msg[d]
           /\ IsPrefix(response_tokens[c], produced[c])
           /\ \A i \in 1..Len(frames[c]) :
                 /\ frames[c][i].chat_id = chat[c]
                 /\ frames[c][i].message_id = msg[c]
                 /\ frames[c][i].assistant = produced[c][i]
           /\ store[msg[c]].chat_id = chat[c]
           /\ store[msg[c]].user_message = question[c]
           /\ store[msg[c]].assistant =
                 IF updates[c] = 1 THEN Concat(produced[c]) ELSE ""

\* The call's first step did not raise and its caller was not cancelled:
\* the failure of its provider call, if any, is the only exception of the
\* call.
Started(c) == mode[c] = "stream" /\ cause[c] \in {"none", "provider"}

\* C12 as stated: a generate_stream call whose provider call failed is never
\* in an error outcome: it keeps exactly one record, and once its frame
\* sequence is exhausted the record is finalized with the tokens received
\* before the failure (possibly none).  A generate_answer call whose
\* provider call failed ends in an error outcome.
C12_StreamFailureNotSurfaced ==
    \A c \in Calls :
        /\ (Started(c) /\ ProviderRaised(c)) =>
              /\ pc[c] \in {"draining", "yielded", "awaitrun", "closed", "exhausted"}
              /\ creates[c] = 1
              /\ msg[c] \in 1..Len(store)
              /\ pc[c] = "exhausted" =>
                    /\ updates[c] = 1
                    /\ store[msg[c]].assistant = Concat(response_tokens[c])
        /\ (mode[c] = "generate" /\ cause[c] = "provider") => pc[c] = "error"

\* C12 (amended): a generate_stream call whose provider call raised an
\* Exception, which wrap_done catches and logs, is never in an error
\* outcome: it keeps exactly one record, its generator is draining,
\* suspended, closed by the caller or exhausted, and once exhausted the
\* record is finalized with the tokens received before the failure
\* (possibly none).  When the provider call raised an exception that
\* wrap_done does not catch, the task ends with it, `await run` raises it
\* at the consumer, and the record stays pending.  A generate_answer call
\* whose provider call failed ends in an error outcome.
C12_CaughtFailureNotSurfaced ==
    \A c \in Calls :
        /\ (Started(c) /\ failed[c]) =>
              /\ pc[c] \in {"draining", "yielded", "awaitrun", "closed", "exhausted"}
              /\ pc[c] = "closed" => abandoned[c]
              /\ task[c] = "finished"
              /\ creates[c] = 1
              /\ msg[c] \in 1..Len(store)
              /\ pc[c] = "exhausted" =>
                    /\ updates[c] = 1
                    /\ store[msg[c]].assistant = Concat(response_tokens[c])
                    /\ IsPrefix(response_tokens[c], produced[c])
        /\ (Started(c) /\ task[c] = "crashed") =>
              /\ pc[c] \in {"draining", "yielded", "awaitrun", "closed", "error"}
              /\ ~failed[c]
              /\ updates[c] = 0
              /\ msg[c] \in 1..Len(store)
              /\ store[msg[c]].assistant = ""
        /\ (Started(c) /\ pc[c] = "error") => task[c] = "crashed"
        /\ (mode[c] = "generate" /\ cause[c] = "provider") =>
              (pc[c] = "error" /\ provCalls[c] = 1 /\ creates[c] = 0)

\* A stream whose provider call raised an Exception is exhausted, its
\* record finalized, and a buffered call has failed at the provider.
C12_Witness ==
    \E c, d \in Calls :
        /\ mode[c] = "stream" /\ failed[c] /\ pc[c] = "exhausted"
        /\ updates[c] = 1
        /\ mode[d] = "generate" /\ cause[d] = "provider" /\ pc[d] = "error"

\* Call d of generate_answer was made after call c returned, with the same
\* chat_id and the same question.
Repeats(c, d) ==
    /\ c < d
    /\ mode[c] = "generate" /\ pc[c] = "returned"
    /\ mode[d] = "generate" /\ pc[d] = "returned"
    /\ chat[c] = chat[d] /\ question[c] = question[d]

\* C13: generate_answer called twice with the same chat_id and the same
\* question creates two records with distinct message ids, the first record
\* still holds what the first call wrote, and the history the second call
\* assembled contains the turn of the first call.
C13_RepeatedGenerateSeesFirstTurn ==
    \A c, d \in Calls :
        Repeats(c, d) =>
            /\ msg[c] # msg[d]
            /\ msg[c] \in 1..Len(store) /\ msg[d] \in 1..Len(store)
            /\ store[msg[c]].user_message = question[c]
            /\ store[msg[c]].assistant \in Answers
            /\ \E i \in 1..Len(history[d].turns) :
                  history[d].turns[i] =
                      <<question[c], store[msg[c]].assistant>>

\* The system message of the assembled messages.
SystemContent == prompt.messages[1].content

\* C14: once generate_answer or generate_stream has assembled its messages,
\* the first message is the system message; with a prompt override its
\* content is the override's content, whatever the persona name; with none
\* it is SYSTEM_MESSAGE[:29] + name + SYSTEM_MESSAGE[29:], for every name,
\* the empty one included ("Ada" gives "Your name is a Digital Twin -Ada .").
C14_PromptResolution ==
    prompt.path \in {"generate", "stream"} =>
        /\ Len(prompt.messages) = 2
        /\ prompt.messages[1].role = "system"
        /\ prompt.prompt_to_use # <<>> =>
              SystemContent = prompt.prompt_to_use[1].content
        /\ prompt.prompt_to_use = <<>> =>
              /\ SystemContent =
                    SubSeq(SYSTEM_MESSAGE, 1, 29) \o prompt.name
                        \o SubSeq(SYSTEM_MESSAGE, 30, Len(SYSTEM_MESSAGE))
              /\ Len(SystemContent) = Len(SYSTEM_MESSAGE) + Len(prompt.name)
              /\ prompt.name = <<"A", "d", "a">> =>
                    SubSeq(SystemContent, 24, 34) =
                        <<"T", "w", "i", "n", " ", "-", "A", "d", "a", " ", ".">>

\* generate_stream assembled its messages with no override for persona Ada.
C14_Witness ==
    /\ prompt.path = "stream"
    /\ prompt.prompt_to_use = <<>>
    /\ prompt.name = <<"A", "d", "a">>
    /\ Len(prompt.messages) = 2

\* C15: after construction the effective key (openai_api_key) is the user's
\* key whenever one was given, else the caller's key, and None when neither
\* was given; construction is possible for every combination of keys.
C15_ApiKeyPrecedence ==
    /\ config.self = <<>> => ENABLED Construct
    /\ config.self # <<>> =>
          LET d == config.data
              key == config.self[1].openai_api_key
          IN /\ d.user_openai_api_key # None => key = d.user_openai_api_key
             /\ d.user_openai_api_key = None => key = d.openai_api_key
             /\ (d.user_openai_api_key = None /\ d.openai_api_key = None)
                    => key = None

\* An object was constructed with both keys given, and they differ.
C15_Witness ==
    /\ config.self # <<>>
    /\ config.data.user_openai_api_key = "sk-a"
    /\ config.data.openai_api_key = "sk-b"
    /\ config.self[1].openai_api_key = "sk-a"

\* C16: a generate_stream call has yielded one frame per token it received;
\* the assistant field of the i-th frame is the i-th token alone (not the
\* text joined so far), and chat_id, message_id, message_time and
\* user_message of every frame are those of the record the call created.
C16_OneFramePerToken ==
    \A c \in Calls :
        Streaming(c) =>
            /\ Len(frames[c]) = Len(response_tokens[c])
            /\ \A i \in 1..Len(frames[c]) :
                  /\ frames[c][i].assistant = response_tokens[c][i]
                  /\ i > 1 => frames[c][i].assistant #
                                  Concat(SubSeq(response_tokens[c], 1, i))
                  /\ frames[c][i].message_id = msg[c]
                  /\ frames[c][i].chat_id = store[msg[c]].chat_id
                  /\ frames[c][i].message_time = store[msg[c]].message_time
                  /\ frames[c][i].user_message = store[msg[c]].user_message
                  /\ [frames[c][i] EXCEPT !.assistant = ""] =
                        [frames[c][1] EXCEPT !.assistant = ""]

\* A call has yielded two frames and is not the first to have a record.
C16_Witness ==
    \E c \in Calls :
        /\ Streaming(c)
        /\ Len(frames[c]) = 2
        /\ msg[c] = 2

\* C17: whenever the background task of a generate_stream call exists, has
\* pushed a token or a frame has been yielded, and the creation of the
\* record did not raise, the record has been created; the payload built
\* from it names a record of the call's chat and question, pending
\* (assistant "") until the call's finalizing update: the task is made
\* first, yet nothing it does comes before the record.
C17_RecordBeforeTokens ==
    \A c \in Calls :
        ((task[c] # "none" \/ produced[c] # <<>> \/ queue[c] # <<>>
            \/ frames[c] # <<>>)
         /\ cause[c] \notin {"prompt_to_use_id", "update_chat_history"}) =>
            /\ creates[c] = 1
            /\ cause[c] # "prompt_to_use" =>
                  /\ msg[c] \in 1..Len(store)
                  /\ store[msg[c]].chat_id = chat[c]
                  /\ store[msg[c]].user_message = question[c]
                  /\ updates[c] = 0 => store[msg[c]].assistant = ""

\* The task has pushed a token that the generator has not read yet, and
\* the record is there, pending.
C17_Witness ==
    \E c \in Calls :
        /\ task[c] = "running"
        /\ queue[c] # <<>> /\ frames[c] = <<>>
        /\ msg[c] # 0
        /\ store[msg[c]].assistant = ""

\* The call ended with an exception of history loading, persona lookup or
\* prompt resolution (the prompt is resolved again for the record and for
\* the payload).
LookupFailed(c) ==
    cause[c] \in {"lookup", "prompt_to_use_id", "prompt_to_use"}

\* C18: a call that failed in history loading, persona lookup or prompt
\* resolution has created no record, launched no provider call or task and
\* updated nothing, so no such failure leaves a pending record behind.
C18_AbortBeforeSideEffects ==
    \A c \in Calls :
        LookupFailed(c) =>
           /\ pc[c] = "error"
           /\ creates[c] = 0 /\ msg[c] = 0 /\ updates[c] = 0
           /\ provCalls[c] = 0
           /\ task[c] = "none"
           /\ produced[c] = <<>> /\ frames[c] = <<>>

\* C19: a step in which call c makes its finalizing update changes the
\* record whose message id the creation of call c returned, and only its
\* assistant text, which becomes the joined tokens of call c (user_message
\* is rewritten with the question it already held); every other record,
\* and the number of records, stay as they were.
C19_FinalizeOwnRecordOnly ==
    [][\A c \in Calls :
          updates'[c] # updates[c] =>
             /\ Len(store') = Len(store)
             /\ msg'[c] = msg[c] /\ msg[c] \in 1..Len(store)
             /\ store[msg[c]].user_message = question[c]
             /\ store'[msg[c]] =
                   [store[msg[c]] EXCEPT !.assistant = Concat(response_tokens[c])]
             /\ \A i \in 1..Len(store) : i # msg[c] => store'[i] = store[i]]_vars

\* A call has finalized a non-empty text while a newer record of another
\* call is in the store, still pending.
C19_Witness ==
    \E c, d \in Calls :
        /\ updates[c] = 1 /\ store[msg[c]].assistant # ""
        /\ msg[d] > msg[c]
        /\ mode[d] = "stream" /\ updates[d] = 0
        /\ store[msg[d]].assistant = ""
====
